---- MODULE Spec2Model ----
(***************************************************************************)
(* berish-emitter: the EventEmitter registry (subscriptions, off-triggers, *)
(* state snapshots) and the CacheEmitter built on it (single-flight call,  *)
(* shared subscribe).                                                      *)
(*                                                                         *)
(* The specifications share the registry operators:                        *)
(*   Spec          a CacheEmitter driven through call / subscribe /        *)
(*                 unsubscribe, with its deferred producers, openers and   *)
(*                 teardown continuations as separate steps;               *)
(*   SpecFair      the same under the fairness of the event loop;          *)
(*   SpecRegistry  an EventEmitter driven directly through on / off /      *)
(*                 offEvent / offAll / triggerOff* / offTriggerOff;        *)
(*   SpecEmit      emitSync among subscriptions and waitEvent listeners;   *)
(*   SpecSnapshot  state snapshots among every kind of emission;           *)
(*   SpecAsync     emitAsync and the promises of its callbacks;            *)
(*   SpecTimeout   waitEventTimeout and its timer;                         *)
(*   SpecReentrant emissions whose callbacks subscribe and unsubscribe;    *)
(*   SpecDerive    createNewEmitter and the two emitters it leaves.        *)
(*                                                                         *)
(* guid() is modelled by a counter: the n-th identifier issued is n.       *)
(* JavaScript's undefined is the string "undefined", which is what the     *)
(* template literal in getOffEventName turns it into.                      *)
(***************************************************************************)
EXTENDS Integers, Sequences, FiniteSets, TLC

\* ------------------------------------------------------------------ bounds
\* number of guid() calls a behaviour of Spec may make
MaxGuid == 4
\* number of guid() calls a behaviour of SpecFair may make
MaxFairGuid == 3
\* number of guid() calls a behaviour of SpecRegistry may make
MaxRegGuid == 3

\* number of guid() calls a behaviour of SpecEmit, SpecAsync or SpecDerive may make
MaxEmGuid == 3
\* number of guid() calls a behaviour of SpecSnapshot may make
MaxSnGuid == 2
\* number of guid() calls a behaviour of SpecTimeout may make
MaxToGuid == 2
\* number of guid() calls a behaviour of SpecReentrant may make
MaxReGuid == 3

Keys == {"k1", "k2"}
\* the event names of SpecRegistry
Names == {"a", "b"}
\* what a producer may return, and what it may throw
Vals == {"v"}
Errs == {"e"}
\* what an upstream may pass to emit: primitive values, whose .data and .type
\* are undefined
Datas == {"d"}
\* what is emitted and set as a snapshot on an EventEmitter used directly
EmDatas == {"x", "y"}
\* the subscriber callbacks given to on(): one that returns and one that throws
\* (waitEvent adds its own, "wait"); SpecAsync adds one that returns a promise
\* which settles later
EmCallbacks == {"cb", "throw"}
AsCallbacks == {"cb", "throw", "async"}
\* SpecReentrant adds callbacks that use the emitter they are called by:
\* "onAgain" subscribes a callback of its own to the name it listens to,
\* "offNext" and "offSecond" call off with the identifier issued first and
\* second after their own
ReCallbacks == {"cb", "throw", "onAgain", "offNext", "offSecond"}
\* the rejection reason of a subscriber callback that throws
CbErr == "cbErr"
Undefined == "undefined"
\* what the rejectReturn function given to waitEventTimeout returns
TimeoutReturn == "timeout"
\* before the first emitAsync / createNewEmitter
NoEmission == [results |-> <<>>, state |-> "none", reason |-> 0]
NoEmitter == [made |-> FALSE, alias |-> FALSE, events |-> <<>>]

VARIABLES
    events,          \* EventEmitter._events
    offTriggers,     \* EventEmitter._offTriggers
    states,          \* EventEmitter._states
    guidN,           \* number of identifiers guid() has issued
    prods,           \* CacheEmitter.call: one record per scheduled producer chain
    futures,         \* CacheEmitter.call: the promise returned to each caller, by listener hash
    ups,             \* CacheEmitter.subscribe: one record per activation (its closure;
                     \* early, history: its hook ran before its opener did)
    epochProducers,  \* history: producers activated per key since the key last had no listener
    epochOpeners,    \* history: openers activated per key since the key last had no listener
    delivered,       \* history: the subscriber callbacks the last step invoked, in order
    fired,           \* history: the off-trigger callbacks the last step invoked, in order
    lastOp,          \* history: the operation the last step performed
    emission,        \* EventEmitter.emitAsync: the promises of the latest call (callbacks' and
                     \* its own), while one of them is pending
    derived          \* createNewEmitter: the emitter it returned last, and whether its _events
                     \* is the very array of the original

vars == <<events, offTriggers, states, guidN, prods, futures, ups,
          epochProducers, epochOpeners, delivered, fired, lastOp, emission, derived>>

\* --------------------------------------------------------- EventEmitter
getOffName(eventHash) == <<"trigger_off", eventHash>>

getOffEventName(eventName) == <<"trigger_off_event", eventName>>

getOffAllName == <<"trigger_off_all">>

getEvents(evs, eventName) == SelectSeq(evs, LAMBDA m : m.eventName = eventName)

has(evs, eventHash) == \E i \in DOMAIN evs : evs[i].eventHash = eventHash

hasEvent(evs, eventName) == \E i \in DOMAIN evs : evs[i].eventName = eventName

\* the ids of the subscriptions of a list
hashesOf(evs) == {evs[i].eventHash : i \in DOMAIN evs}

hasState(sts, stateName) == \E i \in DOMAIN sts : sts[i].stateName = stateName

\* currentEvent && currentEvent.eventName of off(): undefined for an unknown hash
\* (LINQ first() yields undefined when nothing matches, as the && guard expects)
eventNameOf(evs, eventHash) ==
    IF has(evs, eventHash)
    THEN SelectSeq(evs, LAMBDA m : m.eventHash = eventHash)[1].eventName
    ELSE Undefined

_offAction(evs, eventHash) == SelectSeq(evs, LAMBDA m : m.eventHash # eventHash)

_offEventAction(evs, eventName) == SelectSeq(evs, LAMBDA m : m.eventName # eventName)

\* the callbacks _offEmit / _offEventEmit / _offAllEmit invoke, in order
_offEmit(trigs, eventHash) ==
    SelectSeq(trigs, LAMBDA m : m.eventName = getOffName(eventHash))

_offEventEmit(trigs, eventName) ==
    SelectSeq(trigs, LAMBDA m : m.eventName = getOffEventName(eventName))

_offAllEmit(trigs) ==
    SelectSeq(trigs, LAMBDA m : m.eventName = getOffAllName)

\* a callback that throws ends the map() it runs in and the try block around it
RECURSIVE UntilThrow(_)
UntilThrow(cbs) ==
    IF cbs = <<>> THEN <<>>
    ELSE IF Head(cbs).callback = "throw" THEN <<Head(cbs)>>
    ELSE <<Head(cbs)>> \o UntilThrow(Tail(cbs))

\* The callbacks of off-triggers an EventEmitter is given directly are "log"
\* (returns) or "throw" (throws); every callback invoked is recorded in fired
\* with the _events it observes.
RECURSIVE Observed(_, _)
Observed(cbs, evs) ==
    IF cbs = <<>> THEN <<>>
    ELSE <<[eventHash |-> Head(cbs).eventHash, seen |-> evs]>> \o Observed(Tail(cbs), evs)

\* mutant of offDrained: the event-drained triggers fire on every removal
offDrainedAlways(evs, eventName) == TRUE

\* the condition of off()'s second emit
offDrained(evs, eventName) == Len(getEvents(evs, eventName)) <= 0

\* the try block of off(): evs is _events after _offAction
offCascade(evs, trigs, eventHash, eventName) ==
    UntilThrow(
        _offEmit(trigs, eventHash)
        \o (IF offDrained(evs, eventName) THEN _offEventEmit(trigs, eventName) ELSE <<>>)
        \o (IF Len(evs) <= 0 THEN _offAllEmit(trigs) ELSE <<>>))

\* events.forEach(eventHash => this._offEmit(eventHash))
RECURSIVE offEmitEach(_, _)
offEmitEach(trigs, evs) ==
    IF evs = <<>> THEN <<>>
    ELSE _offEmit(trigs, Head(evs).eventHash) \o offEmitEach(trigs, Tail(evs))

\* the try block of offEvent(): removed are the subscriptions of eventName
\* before _offEventAction, evs is _events after it
offEventCascade(evs, trigs, removed, eventName) ==
    UntilThrow(
        offEmitEach(trigs, removed)
        \o _offEventEmit(trigs, eventName)
        \o (IF Len(evs) <= 0 THEN _offAllEmit(trigs) ELSE <<>>))

\* LINQ.from(this._events).map(m => m.eventName).distinct(m => m)
RECURSIVE distinctNames(_)
distinctNames(evs) ==
    IF evs = <<>> THEN <<>>
    ELSE <<Head(evs).eventName>>
         \o distinctNames(SelectSeq(Tail(evs), LAMBDA m : m.eventName # Head(evs).eventName))

\* eventNames.forEach(eventName => this._offEventEmit(eventName))
RECURSIVE offEventEmitEach(_, _)
offEventEmitEach(trigs, names) ==
    IF names = <<>> THEN <<>>
    ELSE _offEventEmit(trigs, Head(names)) \o offEventEmitEach(trigs, Tail(names))

\* the try block of offAll(), which runs before _offAllAction
offAllCascade(evs, trigs) ==
    UntilThrow(
        offEmitEach(trigs, evs)
        \o offEventEmitEach(trigs, distinctNames(evs))
        \o _offAllEmit(trigs))

_onTriggerOff(trigs, eventName, eventHash, callback, ref) ==
    Append(trigs, [eventName |-> eventName, eventHash |-> eventHash,
                   callback |-> callback, ref |-> ref])

_offTriggerOff(trigs, eventHash) == SelectSeq(trigs, LAMBDA m : m.eventHash # eventHash)

\* --------------------------------------------------------- CacheEmitter
\* The synchronous part of every operation works on a record of the mutable
\* state: [events, offTriggers, ups, futures, delivered, fired, guidN].
\* mutant of Tagged: a failure of the producer is tagged as one
TaggedByOutcome(data) ==
    [env |-> TRUE, data |-> data, type |-> IF data \in Errs THEN "reject" ELSE "resolve"]

\* { data: result, type: 'resolve' } of .then and { data: err, type: 'resolve' } of .catch
Tagged(data) == [env |-> TRUE, data |-> data, type |-> "resolve"]

Raw(data) == [env |-> FALSE, data |-> data, type |-> Undefined]

St == [events |-> events, offTriggers |-> offTriggers, ups |-> ups,
       futures |-> futures, delivered |-> <<>>, fired |-> <<>>, guidN |-> guidN]

RECURSIVE cacheOff(_, _)
RECURSIVE runTeardownHooks(_, _)

\* this._emitter.off(eventHash), with the teardown hooks it fires run to their
\* first await
cacheOff(st, eventHash) ==
    LET eventName == eventNameOf(st.events, eventHash)
        evs       == _offAction(st.events, eventHash)
        cbs       == offCascade(evs, st.offTriggers, eventHash, eventName)
    IN  runTeardownHooks([st EXCEPT !.events = evs], cbs)

\* the async callback of subscribe()'s triggerOffEvent, up to its await:
\* with unlistenerPromise already null it runs through to off(triggerOffEventHash)
runTeardownHooks(st, cbs) ==
    IF cbs = <<>> THEN st
    ELSE LET h   == Head(cbs)
             st1 == [st EXCEPT !.fired = Append(@, [eventHash |-> h.eventHash,
                                                    seen |-> st.events])]
         IN  IF st1.ups[h.ref].promiseNull
             THEN runTeardownHooks(cacheOff(st1, h.eventHash), Tail(cbs))
             ELSE runTeardownHooks(
                      [st1 EXCEPT !.ups[h.ref].awaiting = @ + 1,
                                  !.ups[h.ref].early = @ \/ st1.ups[h.ref].status = "scheduled"],
                      Tail(cbs))

\* the listener call() registers: ({ data, type }) => { responseCall; off }
callListener(st, eventHash, msg) ==
    LET type == IF msg.env THEN msg.type ELSE Undefined
        data == IF msg.env THEN msg.data ELSE Undefined
        f    == st.futures[eventHash]
        st1  == IF f.state = "pending"
                THEN [st EXCEPT !.futures[eventHash] =
                        [f EXCEPT !.state = IF type = "resolve" THEN "resolved" ELSE "rejected",
                                  !.value = data]]
                ELSE st
    IN  IF has(st1.events, eventHash) THEN cacheOff(st1, eventHash) ELSE st1

\* off(eventHash) of an EventEmitter used directly
regOff(st, eventHash) ==
    LET eventName == eventNameOf(st.events, eventHash)
        evs       == _offAction(st.events, eventHash)
        cbs       == offCascade(evs, st.offTriggers, eventHash, eventName)
    IN  [st EXCEPT !.events = evs, !.fired = @ \o Observed(cbs, evs)]

\* Promise.race([eventPromise, timeoutPromise]) of waitEventTimeout, whose record
\* carries the timer and the race beside the promise of waitEvent: the race,
\* while pending, takes the outcome of eventPromise before any timer can run
raceFollows(f) ==
    IF "race" \in DOMAIN f /\ f.race = "pending" /\ f.state = "resolved"
    THEN [f EXCEPT !.race = "resolved", !.raceValue = f.value]
    ELSE f

\* mutant of waitListener: the listener resolves and stays registered
waitListenerStays(st, eventHash, data) ==
    [st EXCEPT !.futures[eventHash] = [@ EXCEPT !.state = "resolved", !.value = data]]

\* the listener waitEvent() registers:
\* (data, eventHash) => { try { resolve(data) } ... finally { this.off(eventHash) } }
waitListener(st, eventHash, data) ==
    LET f   == st.futures[eventHash]
        st1 == IF f.state = "pending"
               THEN [st EXCEPT !.futures[eventHash] =
                        raceFollows([f EXCEPT !.state = "resolved", !.value = data])]
               ELSE st
    IN  regOff(st1, eventHash)

\* mutant of timerFire: the timer that wins the race cancels the listener
timerFireCancels(st, eventHash) ==
    LET f == st.futures[eventHash]
    IN  IF f.race = "pending"
        THEN regOff([st EXCEPT !.futures[eventHash] =
                        [f EXCEPT !.timer = "fired",
                                  !.race = IF f.onTimeout THEN "rejected" ELSE "resolved",
                                  !.raceValue = IF f.onTimeout THEN TimeoutReturn ELSE Undefined]],
                    eventHash)
        ELSE [st EXCEPT !.futures[eventHash].timer = "fired"]

\* the setTimeout callback of waitEventTimeout: if (rejectReturn)
\* reject(rejectReturn()); else resolve(); a race already settled ignores it
timerFire(st, eventHash) ==
    LET f == st.futures[eventHash]
    IN  IF f.race = "pending"
        THEN [st EXCEPT !.futures[eventHash] =
                 [f EXCEPT !.timer = "fired",
                           !.race = IF f.onTimeout THEN "rejected" ELSE "resolved",
                           !.raceValue = IF f.onTimeout THEN TimeoutReturn ELSE Undefined]]
        ELSE [st EXCEPT !.futures[eventHash].timer = "fired"]

\* the identifier a callback that unsubscribes calls off with (0: it calls none)
offTarget(e) ==
    IF e.callback = "offNext" THEN e.eventHash + 1
    ELSE IF e.callback = "offSecond" THEN e.eventHash + 2
    ELSE 0

\* event.callback(data, event.eventHash): the call is recorded and the callback
\* does what its kind does
invoke(st, e, msg) ==
    LET st1 == [st EXCEPT !.delivered =
                   Append(@, [eventHash |-> e.eventHash, callback |-> e.callback, data |-> msg])]
    IN  IF e.callback = "call" THEN callListener(st1, e.eventHash, msg)
        ELSE IF e.callback = "wait" THEN waitListener(st1, e.eventHash, msg)
        ELSE IF e.callback = "onAgain"
        THEN [st1 EXCEPT !.events = Append(@, [eventName |-> e.eventName,
                                               eventHash |-> st1.guidN + 1,
                                               callback |-> "cb"]),
                         !.guidN = @ + 1]
        ELSE IF offTarget(e) # 0 THEN regOff(st1, offTarget(e))
        ELSE st1

\* mutant of deliver: a subscription removed meanwhile is passed over
RECURSIVE deliverRegistered(_, _, _)
deliverRegistered(st, evs, msg) ==
    IF evs = <<>> THEN st
    ELSE IF ~has(st.events, Head(evs).eventHash) THEN deliverRegistered(st, Tail(evs), msg)
    ELSE deliverRegistered(invoke(st, Head(evs), msg), Tail(evs), msg)

\* mutant of deliver: the list of subscribers is read again after every callback
RECURSIVE deliverLive(_, _, _)
deliverLive(st, evs, msg) ==
    IF evs = <<>> THEN st
    ELSE LET e   == Head(evs)
             st2 == invoke(st, e, msg)
         IN  deliverLive(st2,
                         SelectSeq(st2.events, LAMBDA m : /\ m.eventName = e.eventName
                                                          /\ m.eventHash > e.eventHash),
                         msg)

\* the callbacks of evs invoked in order with msg: emitAsync's
\* events.map(async event => event.callback(data, event.eventHash)) over the
\* list getEvents returned, whatever the callbacks do to _events
RECURSIVE deliver(_, _, _)
deliver(st, evs, msg) ==
    IF evs = <<>> THEN st
    ELSE deliver(invoke(st, Head(evs), msg), Tail(evs), msg)

\* mutant of emitTargets: the emission visits the subscribers of every name
emitTargetsAll(evs, eventName) == evs

\* the subscribers an emission visits: getEvents(eventName) at the time of the call
emitTargets(evs, eventName) == getEvents(evs, eventName)

\* emitAsync(eventName, data): the synchronous part
emitAsync(st, eventName, msg) == deliver(st, emitTargets(st.events, eventName), msg)

\* mutant of emitSync: the subscribers of every name are visited
emitSyncAnyName(st, eventName, msg) == deliver(st, UntilThrow(st.events), msg)

\* emitSync(eventName, data): events.map(event => event.callback(...)), which a
\* callback that throws ends
emitSync(st, eventName, msg) == deliver(st, UntilThrow(emitTargets(st.events, eventName)), msg)

\* the promises emitAsync's map() collects: an async wrapper that has returned
\* is fulfilled, one that has thrown is rejected, one whose callback returned a
\* promise ("async") follows it
asyncResults(evs) ==
    [i \in DOMAIN evs |->
        IF evs[i].callback = "throw" THEN "rejected"
        ELSE IF evs[i].callback = "async" THEN "pending"
        ELSE "fulfilled"]

\* mutant of promiseAll: Promise.allSettled-like, a rejection waits for the rest
promiseAllWaits(em) ==
    IF em.state # "pending" \/ \E i \in DOMAIN em.results : em.results[i] = "pending"
    THEN em
    ELSE IF \E i \in DOMAIN em.results : em.results[i] = "rejected"
    THEN [em EXCEPT !.state = "rejected",
                    !.reason = CHOOSE i \in DOMAIN em.results :
                                  /\ em.results[i] = "rejected"
                                  /\ \A j \in DOMAIN em.results :
                                        em.results[j] = "rejected" => i <= j]
    ELSE [em EXCEPT !.state = "fulfilled"]

\* Promise.all(results) after a change of results: it rejects with the first
\* rejection (reason: the index of the callback), fulfils when all have fulfilled
promiseAll(em) ==
    IF em.state # "pending" THEN em
    ELSE IF \E i \in DOMAIN em.results : em.results[i] = "rejected"
    THEN [em EXCEPT !.state = "rejected",
                    !.reason = CHOOSE i \in DOMAIN em.results :
                                  /\ em.results[i] = "rejected"
                                  /\ \A j \in DOMAIN em.results :
                                        em.results[j] = "rejected" => i <= j]
    ELSE IF \A i \in DOMAIN em.results : em.results[i] = "fulfilled"
    THEN [em EXCEPT !.state = "fulfilled"]
    ELSE em

\* the promise emitAsync returns, when the call returns
emitAsyncPromise(evs, eventName) ==
    promiseAll([results |-> asyncResults(emitTargets(evs, eventName)),
                state |-> "pending", reason |-> 0])

\* mutant of stateData: first() without its predicate
stateDataFirst(sts, stateName) == sts[1].data

\* LINQ.from(this._states).first(m => m.stateName === eventName).data
stateData(sts, stateName) == SelectSeq(sts, LAMBDA m : m.stateName = stateName)[1].data

\* on(eventName, callback) of an EventEmitter used directly: the registration
\* and the replay of the snapshot
regOn(st, sts, eventName, eventHash, callback) ==
    LET st1 == [st EXCEPT !.events =
                   Append(@, [eventName |-> eventName, eventHash |-> eventHash,
                              callback |-> callback])]
    IN  IF hasState(sts, eventName)
        THEN deliver(st1, <<[eventName |-> eventName, eventHash |-> eventHash,
                             callback |-> callback]>>, stateData(sts, eventName))
        ELSE st1

\* what on() hands to its caller: the new hash, or nothing (0) when the replay
\* of the snapshot invoked a callback that throws, which ends on() before its
\* return statement
onReturns(sts, eventName, eventHash, callback) ==
    IF hasState(sts, eventName) /\ callback = "throw" THEN 0 ELSE eventHash

\* removeState(stateName)
removeState(sts, stateName) == SelectSeq(sts, LAMBDA m : m.stateName # stateName)

\* mutant of setState: the snapshot is pushed without removing the previous one
setStateKeepsOld(sts, stateName, data) ==
    Append(sts, [stateName |-> stateName, data |-> data])

\* if (this.hasState(stateName)) this.removeState(stateName); this._states.push(...)
setState(sts, stateName, data) ==
    Append(IF hasState(sts, stateName) THEN removeState(sts, stateName) ELSE sts,
           [stateName |-> stateName, data |-> data])

\* whether the promise of emitAsync can reject: only a cacheCallback of subscribe()
\* can throw or return a rejected promise, the listener of call() cannot
canReject(evs, eventName) ==
    \E i \in DOMAIN evs : evs[i].eventName = eventName /\ evs[i].callback = "onData"

\* on(eventName, callback); CacheEmitter never sets a state, so nothing is replayed
on(evs, eventName, eventHash, callback) ==
    Append(evs, [eventName |-> eventName, eventHash |-> eventHash, callback |-> callback])

\* the epoch counters: a key without listeners starts a new epoch
epochOf(cnt, evs) == [k \in Keys |-> IF hasEvent(evs, k) THEN cnt[k] ELSE 0]

\* the producer chain of a key that has not emitted its result yet, on which a
\* caller that joins the key waits (0: none)
inFlight(k) ==
    LET live == {p \in DOMAIN prods :
                    prods[p].key = k /\ prods[p].status \in {"scheduled", "running"}}
    IN  IF live = {} THEN 0 ELSE CHOOSE p \in live : \A q \in live : q <= p

\* the history record of a step. idle: the key had no listener when call /
\* subscribe / on ran; for off / unsubscribe: the hash was registered. arg: the
\* value emitted, the number of listeners before the removal, or what on()
\* returned.
Op(op, key, hash, idle, arg) ==
    [op |-> op, key |-> key, hash |-> hash, idle |-> idle, arg |-> arg]

\* what a step leaves of the mutable record
Commit(st) ==
    /\ events' = st.events
    /\ offTriggers' = st.offTriggers
    /\ ups' = st.ups
    /\ futures' = st.futures
    /\ delivered' = st.delivered
    /\ fired' = st.fired

\* mutant of callActivates: the gate asks has(eventName), which no hash satisfies
callActivatesAlways(evs, eventName) == TRUE

\* if (!hasEvent) of call()
callActivates(evs, eventName) == ~hasEvent(evs, eventName)

\* call(eventName, realCallback)
Call(k) ==
    /\ guidN < MaxGuid
    /\ LET h    == guidN + 1
           act  == callActivates(events, k)
           task == IF act THEN Len(prods) + 1 ELSE inFlight(k)
       IN  /\ guidN' = h
           /\ events' = on(events, k, h, "call")
           /\ futures' = futures @@ (h :> [task |-> task, state |-> "pending", value |-> Undefined])
           /\ prods' = IF act
                       THEN Append(prods, [key |-> k, by |-> h, status |-> "scheduled",
                                           outcome |-> Undefined])
                       ELSE prods
           /\ epochProducers' = [epochProducers EXCEPT ![k] = IF act THEN @ + 1 ELSE @]
           /\ lastOp' = Op("call", k, h, ~hasEvent(events, k), 0)
    /\ delivered' = <<>>
    /\ fired' = <<>>
    /\ UNCHANGED <<emission, derived, offTriggers, states, ups, epochOpeners>>

\* Promise.resolve().then(() => realCallback()): the deferred invocation
ProducerInvoke(p) ==
    /\ prods[p].status = "scheduled"
    /\ prods' = [prods EXCEPT ![p].status = "running"]
    /\ lastOp' = Op("producerInvoke", prods[p].key, prods[p].by, FALSE, 0)
    /\ delivered' = <<>>
    /\ fired' = <<>>
    /\ UNCHANGED <<emission, derived, events, offTriggers, states, guidN, futures, ups, epochProducers, epochOpeners>>

\* .then(result => emitAsync(...'resolve')) and, for a producer that fails,
\* .catch(err => emitAsync(...'resolve')); rej: a cacheCallback the emission
\* invokes fails, so the promise of emitAsync rejects
ProducerSettle(p, x, rej) ==
    /\ prods[p].status = "running"
    /\ rej => canReject(events, prods[p].key)
    /\ LET k  == prods[p].key
           st == emitAsync(St, k, Tagged(x))
       IN  /\ Commit(st)
           /\ prods' = [prods EXCEPT ![p].outcome = x,
                                     ![p].status = IF rej /\ x \in Vals
                                                   THEN "emitFailed" ELSE "done"]
           /\ epochProducers' = epochOf(epochProducers, st.events)
           /\ epochOpeners' = epochOf(epochOpeners, st.events)
           /\ lastOp' = Op("producerSettle", k, prods[p].by, FALSE, x)
    /\ UNCHANGED <<emission, derived, states, guidN>>

\* .catch(err => emitAsync(...)) after the emission of a result was rejected by a
\* subscriber callback
ProducerCatchEmit(p) ==
    /\ prods[p].status = "emitFailed"
    /\ LET k  == prods[p].key
           st == emitAsync(St, k, Tagged(CbErr))
       IN  /\ Commit(st)
           /\ prods' = [prods EXCEPT ![p].status = "done"]
           /\ epochProducers' = epochOf(epochProducers, st.events)
           /\ epochOpeners' = epochOf(epochOpeners, st.events)
           /\ lastOp' = Op("producerCatchEmit", k, prods[p].by, FALSE, CbErr)
    /\ UNCHANGED <<emission, derived, states, guidN>>

\* mutant of subscribeActivates: the gate asks has(eventName), which no hash satisfies
subscribeActivatesAlways(evs, eventName) == TRUE

\* mutant of subscribeActivates: a key counts as active until its previous
\* upstream has been closed
subscribeActivatesAfterClose(evs, eventName) ==
    /\ ~hasEvent(evs, eventName)
    /\ \A u \in DOMAIN ups : ups[u].key = eventName => ups[u].closes > 0

\* mutant of subscribeActivates: a gate of its own, which the listeners of
\* call() do not close
subscribeActivatesOwnGate(evs, eventName) ==
    ~\E i \in DOMAIN evs : evs[i].eventName = eventName /\ evs[i].callback = "onData"

\* if (!hasEvent) of subscribe()
subscribeActivates(evs, eventName) == ~hasEvent(evs, eventName)

\* the identifiers subscribe() has returned to its callers
SubscribeIds ==
    {h \in 1..guidN :
        /\ h \notin DOMAIN futures
        /\ \A i \in DOMAIN offTriggers : offTriggers[i].eventHash # h}

\* subscribe(eventName, realCallback, cacheCallback)
Subscribe(k) ==
    /\ LET h   == guidN + 1
           act == subscribeActivates(events, k)
       IN  /\ (IF act THEN h + 1 ELSE h) <= MaxGuid
           /\ guidN' = IF act THEN h + 1 ELSE h
           /\ events' = on(events, k, h, "onData")
           /\ ups' = IF act
                     THEN Append(ups, [key |-> k, by |-> h, hook |-> h + 1,
                                       status |-> "scheduled", promiseNull |-> FALSE,
                                       awaiting |-> 0, closes |-> 0, early |-> FALSE])
                     ELSE ups
           /\ offTriggers' = IF act
                             THEN _onTriggerOff(offTriggers, getOffEventName(k), h + 1,
                                                "teardown", Len(ups) + 1)
                             ELSE offTriggers
           /\ epochOpeners' = [epochOpeners EXCEPT ![k] = IF act THEN @ + 1 ELSE @]
           /\ lastOp' = Op("subscribe", k, h, ~hasEvent(events, k), 0)
    /\ delivered' = <<>>
    /\ fired' = <<>>
    /\ UNCHANGED <<emission, derived, states, prods, futures, epochProducers>>

\* Promise.resolve().then(() => realCallback(emit)): the deferred invocation of the
\* opener, which returns its closing function (sync) or a promise of it
OpenerInvoke(u, sync) ==
    /\ ups[u].status = "scheduled"
    /\ ups' = [ups EXCEPT ![u].status = IF sync THEN "open" ELSE "opening"]
    /\ lastOp' = Op("openerInvoke", ups[u].key, ups[u].by, FALSE, 0)
    /\ delivered' = <<>>
    /\ fired' = <<>>
    /\ UNCHANGED <<emission, derived, events, offTriggers, states, guidN, prods, futures,
                   epochProducers, epochOpeners>>

\* the promise the opener returned resolves with the closing function
CloserResolve(u) ==
    /\ ups[u].status = "opening"
    /\ ups' = [ups EXCEPT ![u].status = "open"]
    /\ lastOp' = Op("closerResolve", ups[u].key, ups[u].by, FALSE, 0)
    /\ delivered' = <<>>
    /\ fired' = <<>>
    /\ UNCHANGED <<emission, derived, events, offTriggers, states, guidN, prods, futures,
                   epochProducers, epochOpeners>>

\* the upstream is producing: its opener has run and its closing function has not
upstreamOpen(u) == ups[u].status \in {"opening", "open"} /\ ups[u].closes = 0

\* the upstream calls the callback subscribe() handed to the opener:
\* data => { this._emitter.emitAsync(eventName, data) }
UpstreamEmit(u, d) ==
    /\ upstreamOpen(u)
    /\ LET k  == ups[u].key
           st == emitAsync(St, k, Raw(d))
       IN  /\ Commit(st)
           /\ epochProducers' = epochOf(epochProducers, st.events)
           /\ epochOpeners' = epochOf(epochOpeners, st.events)
           /\ lastOp' = Op("upstreamEmit", k, ups[u].by, FALSE, d)
    /\ UNCHANGED <<emission, derived, states, guidN, prods>>

\* mutant of teardownResume: the closing function is not called
teardownResumeNoClose(st, u) ==
    cacheOff([st EXCEPT !.ups[u].awaiting = @ - 1, !.ups[u].promiseNull = TRUE],
             st.ups[u].hook)

\* the teardown hook after its await: if (unlistener) { unlistener(); ... = null }
\* this._emitter.off(triggerOffEventHash)
teardownResume(st, u) ==
    cacheOff([st EXCEPT !.ups[u].awaiting = @ - 1,
                        !.ups[u].closes = @ + 1,
                        !.ups[u].promiseNull = TRUE],
             st.ups[u].hook)

TeardownResume(u) ==
    /\ ups[u].awaiting > 0
    /\ ups[u].status = "open"
    /\ LET st == teardownResume(St, u)
       IN  /\ Commit(st)
           /\ epochProducers' = epochOf(epochProducers, st.events)
           /\ epochOpeners' = epochOf(epochOpeners, st.events)
           /\ lastOp' = Op("teardownResume", ups[u].key, ups[u].by, FALSE, 0)
    /\ UNCHANGED <<emission, derived, states, guidN, prods>>

\* unsubscribe(eventHash), with an identifier subscribe() returned (registered or not)
Unsubscribe(h) ==
    /\ LET k  == eventNameOf(events, h)
           st == cacheOff(St, h)
       IN  /\ Commit(st)
           /\ epochProducers' = epochOf(epochProducers, st.events)
           /\ epochOpeners' = epochOf(epochOpeners, st.events)
           /\ lastOp' = Op("unsubscribe", k, h, has(events, h), Len(getEvents(events, k)))
    /\ UNCHANGED <<emission, derived, states, guidN, prods>>

Init ==
    /\ events = <<>>
    /\ offTriggers = <<>>
    /\ states = <<>>
    /\ guidN = 0
    /\ prods = <<>>
    /\ futures = <<>>
    /\ ups = <<>>
    /\ epochProducers = [k \in Keys |-> 0]
    /\ epochOpeners = [k \in Keys |-> 0]
    /\ delivered = <<>>
    /\ fired = <<>>
    /\ lastOp = Op("init", "", 0, FALSE, 0)
    /\ emission = NoEmission
    /\ derived = NoEmitter

Next ==
    \/ \E k \in Keys : Call(k)
    \/ \E p \in DOMAIN prods : ProducerInvoke(p)
    \/ \E p \in DOMAIN prods : \E x \in Vals \cup Errs : \E rej \in BOOLEAN :
            ProducerSettle(p, x, rej)
    \/ \E p \in DOMAIN prods : ProducerCatchEmit(p)
    \/ \E k \in Keys : Subscribe(k)
    \/ \E u \in DOMAIN ups : \E sync \in BOOLEAN : OpenerInvoke(u, sync)
    \/ \E u \in DOMAIN ups : CloserResolve(u)
    \/ \E u \in DOMAIN ups : \E d \in Datas : UpstreamEmit(u, d)
    \/ \E u \in DOMAIN ups : TeardownResume(u)
    \/ \E h \in SubscribeIds : Unsubscribe(h)

Spec == Init /\ [][Next]_vars

\* The event loop runs every queued job: the deferred opener and the teardown
\* hook's continuation are taken once they can run. That the promise of the
\* closing function resolves is the proviso of the teardown's liveness.
\* An activation of subscribe() takes two identifiers: its listener's and its hook's
UpIds == 1..(MaxGuid \div 2)

Fairness ==
    \A u \in UpIds :
        /\ WF_vars(u \in DOMAIN ups /\ \E sync \in BOOLEAN : OpenerInvoke(u, sync))
        /\ WF_vars(u \in DOMAIN ups /\ CloserResolve(u))
        /\ WF_vars(u \in DOMAIN ups /\ TeardownResume(u))

\* Next with the identifiers of a behaviour capped by MaxFairGuid
FairNext ==
    \/ \E k \in Keys : Call(k) /\ guidN' <= MaxFairGuid
    \/ \E p \in DOMAIN prods : ProducerInvoke(p)
    \/ \E p \in DOMAIN prods : \E x \in Vals \cup Errs : \E rej \in BOOLEAN :
            ProducerSettle(p, x, rej)
    \/ \E p \in DOMAIN prods : ProducerCatchEmit(p)
    \/ \E k \in Keys : Subscribe(k) /\ guidN' <= MaxFairGuid
    \/ \E u \in DOMAIN ups : \E sync \in BOOLEAN : OpenerInvoke(u, sync)
    \/ \E u \in DOMAIN ups : CloserResolve(u)
    \/ \E u \in DOMAIN ups : \E d \in Datas : UpstreamEmit(u, d)
    \/ \E u \in DOMAIN ups : TeardownResume(u)
    \/ \E h \in SubscribeIds : Unsubscribe(h)

SpecFair == Init /\ [][FairNext]_vars /\ Fairness

\* ------------------------------------------------------------ claims (Spec)
\* the listeners of key k that subscribe() registered
consumers(evs, k) == SelectSeq(evs, LAMBDA m : m.eventName = k /\ m.callback = "onData")

\* the producing side effects of key k, counted generously (a deferred start
\* counts as active) and strictly (only what has been invoked and is not over)
pendingProducers(k) ==
    {p \in DOMAIN prods : prods[p].key = k /\ prods[p].status \in {"scheduled", "running"}}

pendingUpstreams(k) == {u \in DOMAIN ups : ups[u].key = k /\ ups[u].closes = 0}

runningProducers(k) ==
    {p \in DOMAIN prods : prods[p].key = k /\ prods[p].status = "running"}

openUpstreams(k) == {u \in DOMAIN ups : ups[u].key = k /\ upstreamOpen(u)}

\* C1: while a key is in flight (from the call that found it without listeners
\* until no listener of the key is left) at most one producer is activated, and
\* a call that found the key with listeners activates none.
C1_SingleFlight ==
    /\ \A k \in Keys : epochProducers[k] <= 1
    /\ \A k \in Keys :
         Cardinality({p \in DOMAIN prods : prods[p].key = k /\ has(events, prods[p].by)}) <= 1
    /\ (lastOp.op = "call" /\ ~lastOp.idle)
         => \A p \in DOMAIN prods : prods[p].by # lastOp.hash

\* two callers wait on one key whose only producer is running
C1_Witness ==
    \E k \in Keys :
        /\ Len(getEvents(events, k)) >= 2
        /\ \A i \in DOMAIN events : events[i].eventName = k => events[i].callback = "call"
        /\ epochProducers[k] = 1
        /\ \E p \in DOMAIN prods : prods[p].key = k /\ prods[p].status = "running"

\* C2 (as claimed): once the producer of a key has settled with a value v and
\* its result has been emitted, every promise of a call that was issued before
\* and waited on that producer is resolved with v.
C2_ResultDelivery ==
    \A h \in DOMAIN futures :
        LET f == futures[h]
        IN  (/\ f.task # 0
             /\ prods[f.task].status \in {"emitFailed", "done"}
             /\ prods[f.task].outcome \in Vals)
                => (f.state = "resolved" /\ f.value = prods[f.task].outcome)

C4_ExactlyOneUpstream ==
    \A k \in Keys :
        hasEvent(events, k) =>
            /\ Cardinality(pendingProducers(k)) + Cardinality(pendingUpstreams(k)) >= 1
            /\ Cardinality(runningProducers(k)) + Cardinality(openUpstreams(k)) <= 1

\* C5 (as claimed): the closing function of one opener invocation is never
\* invoked a second time.
C5_CloserOnce == \A u \in DOMAIN ups : ups[u].closes <= 1

\* C6: a value the upstream passes to emit is delivered, once each and in
\* registration order, to the cacheCallbacks of exactly the consumers the key has
\* at that moment, and to no listener of another key.
C6_FanOut ==
    [][lastOp'.op = "upstreamEmit" =>
        LET k    == lastOp'.key
            cons == consumers(events, k)
            got  == SelectSeq(delivered', LAMBDA r : r.callback = "onData")
        IN  /\ Len(got) = Len(cons)
            /\ \A i \in DOMAIN cons :
                 /\ got[i].eventHash = cons[i].eventHash
                 /\ got[i].data = Raw(lastOp'.arg)
            /\ \A i \in DOMAIN delivered' :
                 \E j \in DOMAIN events :
                     /\ events[j].eventHash = delivered'[i].eventHash
                     /\ events[j].eventName = k]_vars

\* an upstream value reached two consumers while another key had a listener
C6_Witness ==
    /\ lastOp.op = "upstreamEmit"
    /\ Len(SelectSeq(delivered, LAMBDA r : r.callback = "onData")) >= 2
    /\ \E i \in DOMAIN events : events[i].eventName # lastOp.key

\* C7: a call on a key without listeners schedules a fresh producer and a
\* subscribe on a key without listeners schedules a fresh opener, whatever the
\* state of an earlier teardown of the key.
C7_Reactivation ==
    /\ (lastOp.op = "call" /\ lastOp.idle)
         => \E p \in DOMAIN prods :
                /\ prods[p].by = lastOp.hash
                /\ prods[p].key = lastOp.key
                /\ prods[p].status = "scheduled"
    /\ (lastOp.op = "subscribe" /\ lastOp.idle)
         => \E u \in DOMAIN ups :
                /\ ups[u].by = lastOp.hash
                /\ ups[u].key = lastOp.key
                /\ ups[u].status = "scheduled"
                /\ \E i \in DOMAIN offTriggers :
                       /\ offTriggers[i].ref = u
                       /\ offTriggers[i].eventName = getOffEventName(lastOp.key)

\* a subscribe reactivated a drained key whose earlier teardown is still pending
C7_Witness ==
    /\ lastOp.op = "subscribe"
    /\ lastOp.idle
    /\ \E u \in DOMAIN ups :
           /\ ups[u].key = lastOp.key
           /\ ups[u].by # lastOp.hash
           /\ ups[u].awaiting > 0

\* C8: unsubscribe of a registered consumer while another listener of the key
\* remains removes only that consumer, fires no teardown hook and leaves every
\* upstream as it is (no closing function invoked, none awaited).
C8_NonLastUnsubscribe ==
    [][(/\ lastOp'.op = "unsubscribe"
        /\ has(events, lastOp'.hash)
        /\ Len(getEvents(events, eventNameOf(events, lastOp'.hash))) >= 2)
       => /\ fired' = <<>>
          /\ ups' = ups
          /\ {events'[i].eventHash : i \in DOMAIN events'}
               = {events[i].eventHash : i \in DOMAIN events} \ {lastOp'.hash}
          /\ hasEvent(events', lastOp'.key)]_vars

\* a consumer left a key that keeps another consumer and an open upstream
C8_Witness ==
    /\ lastOp.op = "unsubscribe"
    /\ lastOp.idle
    /\ lastOp.arg >= 2
    /\ Len(consumers(events, lastOp.key)) >= 1
    /\ \E u \in DOMAIN ups : ups[u].key = lastOp.key /\ upstreamOpen(u)

\* the callers of call() that wait on key k: their listeners are registered
waiting(evs, k) ==
    {evs[i].eventHash : i \in {i \in DOMAIN evs : evs[i].eventName = k /\ evs[i].callback = "call"}}

\* C22: when the producer of key k fails with e, the promise of every caller
\* waiting on k is resolved with e in that step, no promise is rejected by it, the
\* promises of other keys stay as they are, and the listeners of all those
\* callers are removed, as they are when the producer returns a value, so that k
\* has no caller left.
C22_ProducerFailure ==
    [][(lastOp'.op = "producerSettle" /\ lastOp'.arg \in Errs) =>
        LET k == lastOp'.key
            w == waiting(events, k)
        IN  /\ \A h \in w :
                 /\ futures[h].state = "pending"
                 /\ futures'[h].state = "resolved"
                 /\ futures'[h].value = lastOp'.arg
            /\ \A h \in DOMAIN futures \ w : futures'[h] = futures[h]
            /\ DOMAIN futures' = DOMAIN futures
            /\ events' = SelectSeq(events, LAMBDA m : m.eventHash \notin w)
            /\ waiting(events', k) = {}]_vars

\* the producer failed while two callers waited on its key, which is left
\* without a listener
C22_Witness ==
    /\ lastOp.op = "producerSettle"
    /\ lastOp.arg \in Errs
    /\ Len(SelectSeq(delivered, LAMBDA r : r.callback = "call")) = 2
    /\ \A i \in DOMAIN delivered :
           /\ futures[delivered[i].eventHash].state = "resolved"
           /\ futures[delivered[i].eventHash].value = lastOp.arg
    /\ ~hasEvent(events, lastOp.key)

RegHashes == 0..guidN

\* on(eventName, callback): the snapshot of eventName, if any, is replayed
RegOn(name) ==
    /\ guidN < MaxRegGuid
    /\ LET h == guidN + 1
       IN  /\ guidN' = h
           /\ events' = on(events, name, h, "cb")
           /\ delivered' =
                IF hasState(states, name)
                THEN <<[eventHash |-> h, callback |-> "cb",
                        data |-> SelectSeq(states, LAMBDA m : m.stateName = name)[1].data]>>
                ELSE <<>>
           /\ lastOp' = Op("on", name, h, ~hasEvent(events, name), 0)
    /\ fired' = <<>>
    /\ UNCHANGED <<emission, derived, offTriggers, states, prods, futures, ups, epochProducers, epochOpeners>>

\* off(eventHash)
RegOff(h) ==
    /\ LET eventName == eventNameOf(events, h)
           evs       == _offAction(events, h)
           cbs       == offCascade(evs, offTriggers, h, eventName)
       IN  /\ events' = evs
           /\ fired' = Observed(cbs, evs)
           /\ lastOp' = Op("off", eventName, h, has(events, h), Len(events))
    /\ delivered' = <<>>
    /\ UNCHANGED <<emission, derived, offTriggers, states, guidN, prods, futures, ups,
                   epochProducers, epochOpeners>>

\* triggerOff(eventHash, callback)
RegTriggerOff(h, cb) ==
    /\ guidN < MaxRegGuid
    /\ guidN' = guidN + 1
    /\ offTriggers' = _onTriggerOff(offTriggers, getOffName(h), guidN + 1, cb, 0)
    /\ lastOp' = Op("triggerOff", "", guidN + 1, FALSE, h)
    /\ delivered' = <<>>
    /\ fired' = <<>>
    /\ UNCHANGED <<emission, derived, events, states, prods, futures, ups, epochProducers, epochOpeners>>

\* triggerOffEvent(eventName, callback)
RegTriggerOffEvent(name, cb) ==
    /\ guidN < MaxRegGuid
    /\ guidN' = guidN + 1
    /\ offTriggers' = _onTriggerOff(offTriggers, getOffEventName(name), guidN + 1, cb, 0)
    /\ lastOp' = Op("triggerOffEvent", name, guidN + 1, FALSE, 0)
    /\ delivered' = <<>>
    /\ fired' = <<>>
    /\ UNCHANGED <<emission, derived, events, states, prods, futures, ups, epochProducers, epochOpeners>>

\* triggerOffAll(callback)
RegTriggerOffAll(cb) ==
    /\ guidN < MaxRegGuid
    /\ guidN' = guidN + 1
    /\ offTriggers' = _onTriggerOff(offTriggers, getOffAllName, guidN + 1, cb, 0)
    /\ lastOp' = Op("triggerOffAll", "", guidN + 1, FALSE, 0)
    /\ delivered' = <<>>
    /\ fired' = <<>>
    /\ UNCHANGED <<emission, derived, events, states, prods, futures, ups, epochProducers, epochOpeners>>

\* offTriggerOff(eventHash)
RegOffTriggerOff(h) ==
    /\ offTriggers' = _offTriggerOff(offTriggers, h)
    /\ lastOp' = Op("offTriggerOff", "", h, \E i \in DOMAIN offTriggers : offTriggers[i].eventHash = h, 0)
    /\ delivered' = <<>>
    /\ fired' = <<>>
    /\ UNCHANGED <<emission, derived, events, states, guidN, prods, futures, ups, epochProducers, epochOpeners>>

\* offEvent(eventName)
RegOffEvent(name) ==
    /\ LET removed == getEvents(events, name)
           evs     == _offEventAction(events, name)
           cbs     == offEventCascade(evs, offTriggers, removed, name)
       IN  /\ events' = evs
           /\ fired' = Observed(cbs, evs)
           /\ lastOp' = Op("offEvent", name, 0, hasEvent(events, name), Len(events))
    /\ delivered' = <<>>
    /\ UNCHANGED <<emission, derived, offTriggers, states, guidN, prods, futures, ups,
                   epochProducers, epochOpeners>>

\* offAll(): the hooks run while _events still holds every subscription
RegOffAll ==
    /\ events' = <<>>
    /\ fired' = Observed(offAllCascade(events, offTriggers), events)
    /\ lastOp' = Op("offAll", "", 0, events # <<>>, Len(events))
    /\ delivered' = <<>>
    /\ UNCHANGED <<emission, derived, offTriggers, states, guidN, prods, futures, ups,
                   epochProducers, epochOpeners>>

RegNext ==
    \/ \E name \in Names : RegOn(name)
    \/ \E h \in RegHashes : RegOff(h)
    \/ \E name \in Names : RegOffEvent(name)
    \/ RegOffAll
    \/ \E h \in 1..guidN : \E cb \in {"log", "throw"} : RegTriggerOff(h, cb)
    \/ \E name \in Names : \E cb \in {"log", "throw"} : RegTriggerOffEvent(name, cb)
    \/ \E cb \in {"log", "throw"} : RegTriggerOffAll(cb)
    \/ \E h \in 1..guidN : RegOffTriggerOff(h)

SpecRegistry == Init /\ [][RegNext]_vars

\* ---------------------------------------------------- claims (SpecRegistry)
\* the hashes of the off-triggers registered under a trigger name, in order
triggersOf(name) ==
    LET sel == SelectSeq(offTriggers, LAMBDA m : m.eventName = name)
    IN  Observed(sel, events)

\* C9 (as claimed): off(id) of a registered id removes the subscription before
\* any hook runs and fires the SubscriptionRemoved(id) hooks, then the
\* EventDrained(name) hooks if no subscription of the name remains, then the
\* RegistryCleared hooks if no subscription remains at all, and nothing else.
C9_OffCascadeOrder ==
    (lastOp.op = "off" /\ lastOp.idle) =>
        /\ ~has(events, lastOp.hash)
        /\ fired =
             triggersOf(getOffName(lastOp.hash))
             \o (IF ~hasEvent(events, lastOp.key)
                 THEN triggersOf(getOffEventName(lastOp.key)) ELSE <<>>)
             \o (IF Len(events) = 0 THEN triggersOf(getOffAllName) ELSE <<>>)

\* C10 (as claimed): off(id) of an id that is not registered changes no
\* subscription and fires no hook.
C10_UnknownOffNoop ==
    (lastOp.op = "off" /\ ~lastOp.idle) =>
        /\ Len(events) = lastOp.arg
        /\ fired = <<>>

\* the off-triggers registered under a trigger name, each observing evs
hooksNamed(trigs, name, evs) ==
    Observed(SelectSeq(trigs, LAMBDA m : m.eventName = name), evs)

\* the SubscriptionRemoved hooks of every subscription of subs, in the order of subs
RECURSIVE removedHooks(_, _, _)
removedHooks(trigs, subs, evs) ==
    IF subs = <<>> THEN <<>>
    ELSE hooksNamed(trigs, getOffName(Head(subs).eventHash), evs)
         \o removedHooks(trigs, Tail(subs), evs)

\* C11 (as claimed): unsubscribeEvent(name) removes every subscription of name
\* and no other before any hook runs, then fires the SubscriptionRemoved hooks of
\* each removed id, then the EventDrained(name) hooks, then the RegistryCleared
\* hooks if the registry is then empty, and nothing else.
C11_OffEventCascade ==
    [][lastOp'.op = "offEvent" =>
        LET name == lastOp'.key
        IN  /\ events' = SelectSeq(events, LAMBDA m : m.eventName # name)
            /\ fired' =
                 removedHooks(offTriggers, getEvents(events, name), events')
                 \o hooksNamed(offTriggers, getOffEventName(name), events')
                 \o (IF events' = <<>>
                     THEN hooksNamed(offTriggers, getOffAllName, events') ELSE <<>>)]_vars

\* unsubscribe(id) on every subscription of hashes one after another: the hooks
\* fired, each with the registry it observes
RECURSIVE repeatedOff(_, _, _)
repeatedOff(evs, trigs, hashes) ==
    IF hashes = <<>> THEN <<>>
    ELSE LET h    == Head(hashes)
             evs1 == _offAction(evs, h)
         IN  Observed(offCascade(evs1, trigs, h, eventNameOf(evs, h)), evs1)
             \o repeatedOff(evs1, trigs, Tail(hashes))

\* C12 (as claimed): clear() of a registry that holds subscriptions, none of
\* whose hooks throws, leaves no subscription and fires the hooks that
\* unsubscribe(id) on every subscription in turn fires: the same callbacks in the
\* same order, each observing the same registry.
C12_ClearAsRepeatedOff ==
    [][(/\ lastOp'.op = "offAll"
        /\ events # <<>>
        /\ \A i \in DOMAIN offTriggers : offTriggers[i].callback = "log")
       => /\ events' = <<>>
          /\ fired' = repeatedOff(events, offTriggers,
                                  [i \in DOMAIN events |-> events[i].eventHash])]_vars

\* the ids of the hooks in a record of fired callbacks
hookIds(fs) == {fs[i].eventHash : i \in DOMAIN fs}

\* the hooks a removal of the subscriptions subs owes when it leaves evs: the
\* SubscriptionRemoved hooks of each, the EventDrained hooks of every name of
\* names that has no subscription left, and the RegistryCleared hooks if none
\* is left at all
hooksDue(trigs, subs, names, evs) ==
    {trigs[i].eventHash : i \in
        {i \in DOMAIN trigs :
            \/ \E j \in DOMAIN subs : trigs[i].eventName = getOffName(subs[j].eventHash)
            \/ \E n \in names : ~hasEvent(evs, n) /\ trigs[i].eventName = getOffEventName(n)
            \/ evs = <<>> /\ trigs[i].eventName = getOffAllName}}

\* C21 (as claimed): in unsubscribe of a registered id, unsubscribeEvent and
\* clear, a hook that throws does not keep the remaining hooks of the cascade
\* from being fired: every SubscriptionRemoved hook of a removed subscription,
\* every EventDrained hook of a name drained (or named by unsubscribeEvent) and,
\* when the registry is left empty, every RegistryCleared hook is fired.
C21_HookIsolation ==
    [][/\ (lastOp'.op = "off" /\ lastOp'.idle) =>
            hookIds(fired') =
                hooksDue(offTriggers, SelectSeq(events, LAMBDA m : m.eventHash = lastOp'.hash),
                         {lastOp'.key}, events')
       /\ lastOp'.op = "offEvent" =>
            hookIds(fired') =
                hooksDue(offTriggers, getEvents(events, lastOp'.key), {}, events')
                \cup hookIds(hooksNamed(offTriggers, getOffEventName(lastOp'.key), events'))
       /\ lastOp'.op = "offAll" =>
            hookIds(fired') =
                hooksDue(offTriggers, events,
                         {events[i].eventName : i \in DOMAIN events}, events')]_vars

\* ------------------------- EventEmitter: emission, snapshots, waitEvent
\* emission is followed while a promise of its callbacks is pending: once all
\* have settled nothing of it can change, and the next operation drops it
retained(em) ==
    IF \E i \in DOMAIN em.results : em.results[i] = "pending" THEN em ELSE NoEmission

\* on(eventName, callback)
EmOn(name, cb) ==
    /\ guidN < MaxEmGuid
    /\ guidN' = guidN + 1
    /\ Commit(regOn(St, states, name, guidN + 1, cb))
    /\ lastOp' = Op("on", name, guidN + 1, hasState(states, name),
                    onReturns(states, name, guidN + 1, cb))
    /\ emission' = retained(emission)
    /\ UNCHANGED <<derived, states, prods, epochProducers, epochOpeners>>

\* waitEvent(eventName): new Promise(... this.on(eventName, listener) ...)
EmWaitEvent(name) ==
    /\ guidN < MaxEmGuid
    /\ guidN' = guidN + 1
    /\ LET h  == guidN + 1
           st == [St EXCEPT !.futures =
                     @ @@ (h :> [task |-> 0, state |-> "pending", value |-> Undefined])]
       IN  Commit(regOn(st, states, name, h, "wait"))
    /\ lastOp' = Op("waitEvent", name, guidN + 1, hasState(states, name), 0)
    /\ emission' = retained(emission)
    /\ UNCHANGED <<derived, states, prods, epochProducers, epochOpeners>>

\* off(eventHash)
EmOff(h) ==
    /\ Commit(regOff(St, h))
    /\ lastOp' = Op("off", eventNameOf(events, h), h, has(events, h), Len(events))
    /\ emission' = retained(emission)
    /\ UNCHANGED <<derived, states, guidN, prods, epochProducers, epochOpeners>>

\* emitSync(eventName, data)
EmEmitSync(name, d) ==
    /\ LET st == emitSync(St, name, d)
       IN  Commit(st) /\ guidN' = st.guidN
    /\ lastOp' = Op("emitSync", name, 0, FALSE, d)
    /\ emission' = retained(emission)
    /\ UNCHANGED <<derived, states, prods, epochProducers, epochOpeners>>

\* emitAsync(eventName, data)
EmEmitAsync(name, d) ==
    /\ LET st == emitAsync(St, name, d)
       IN  Commit(st) /\ guidN' = st.guidN
    /\ emission' = emitAsyncPromise(events, name)
    /\ lastOp' = Op("emitAsync", name, 0, FALSE, d)
    /\ UNCHANGED <<derived, states, prods, epochProducers, epochOpeners>>

\* emitStateSync(stateName, data)
EmEmitStateSync(name, d) ==
    /\ states' = setState(states, name, d)
    /\ Commit(emitSync(St, name, d))
    /\ lastOp' = Op("emitStateSync", name, 0, hasState(states, name), d)
    /\ emission' = retained(emission)
    /\ UNCHANGED <<derived, guidN, prods, epochProducers, epochOpeners>>

\* emitStateAsync(stateName, data)
EmEmitStateAsync(name, d) ==
    /\ states' = setState(states, name, d)
    /\ Commit(emitAsync(St, name, d))
    /\ emission' = emitAsyncPromise(events, name)
    /\ lastOp' = Op("emitStateAsync", name, 0, hasState(states, name), d)
    /\ UNCHANGED <<derived, guidN, prods, epochProducers, epochOpeners>>

\* removeState(stateName)
EmRemoveState(name) ==
    /\ states' = removeState(states, name)
    /\ lastOp' = Op("removeState", name, 0, hasState(states, name), 0)
    /\ delivered' = <<>>
    /\ fired' = <<>>
    /\ emission' = retained(emission)
    /\ UNCHANGED <<derived, events, offTriggers, guidN, prods, futures, ups,
                   epochProducers, epochOpeners>>

\* the promise an "async" callback returned to the latest emitAsync settles
EmCallbackSettle(i, ok) ==
    /\ i \in DOMAIN emission.results
    /\ emission.results[i] = "pending"
    /\ emission' = promiseAll([emission EXCEPT
                                  !.results[i] = IF ok THEN "fulfilled" ELSE "rejected"])
    /\ lastOp' = Op("callbackSettle", "", 0, ok, i)
    /\ delivered' = <<>>
    /\ fired' = <<>>
    /\ UNCHANGED <<derived, events, offTriggers, states, guidN, prods, futures, ups,
                   epochProducers, epochOpeners>>

\* waitEventTimeout(eventName, timeout, rejectReturn): waitEvent, the timer and
\* the race among them; withReject: a rejectReturn function is given
EmWaitEventTimeout(name, withReject) ==
    /\ guidN < MaxToGuid
    /\ guidN' = guidN + 1
    /\ LET h  == guidN + 1
           st == [St EXCEPT !.futures =
                     @ @@ (h :> [task |-> 0, state |-> "pending", value |-> Undefined,
                                 timer |-> "armed", onTimeout |-> withReject,
                                 race |-> "pending", raceValue |-> Undefined])]
       IN  Commit(regOn(st, states, name, h, "wait"))
    /\ lastOp' = Op("waitEventTimeout", name, guidN + 1, hasState(states, name), 0)
    /\ emission' = retained(emission)
    /\ UNCHANGED <<derived, states, prods, epochProducers, epochOpeners>>

\* the timer of a waitEventTimeout fires, after timeout || 0 milliseconds
EmTimerFire(h) ==
    /\ h \in DOMAIN futures
    /\ "timer" \in DOMAIN futures[h]
    /\ futures[h].timer = "armed"
    /\ Commit(timerFire(St, h))
    /\ lastOp' = Op("timerFire", eventNameOf(events, h), h, futures[h].race = "pending", 0)
    /\ emission' = retained(emission)
    /\ UNCHANGED <<derived, states, guidN, prods, epochProducers, epochOpeners>>

\* emitSync among subscriptions, waitEvent listeners and removals
EmNext ==
    \/ \E name \in Names : \E cb \in EmCallbacks : EmOn(name, cb)
    \/ \E name \in Names : EmWaitEvent(name)
    \/ \E h \in 1..guidN : EmOff(h)
    \/ \E name \in Names : \E d \in EmDatas : EmEmitSync(name, d)

SpecEmit == Init /\ [][EmNext]_vars

\* snapshots among every kind of emission
SnNext ==
    \/ guidN < MaxSnGuid /\ \E name \in Names : \E cb \in EmCallbacks : EmOn(name, cb)
    \/ guidN < MaxSnGuid /\ \E name \in Names : EmWaitEvent(name)
    \/ \E h \in 1..guidN : EmOff(h)
    \/ \E name \in Names : \E d \in EmDatas : EmEmitSync(name, d)
    \/ \E name \in Names : \E d \in EmDatas : EmEmitAsync(name, d)
    \/ \E name \in Names : \E d \in EmDatas : EmEmitStateSync(name, d)
    \/ \E name \in Names : \E d \in EmDatas : EmEmitStateAsync(name, d)
    \/ \E name \in Names : EmRemoveState(name)

SpecSnapshot == Init /\ [][SnNext]_vars

\* waitEventTimeout among subscriptions, emissions, snapshots and removals; one
\* value is emitted and another set as a snapshot, both unlike what a timer
\* settles the race with
ToNext ==
    \/ \E name \in Names : \E withReject \in BOOLEAN : EmWaitEventTimeout(name, withReject)
    \/ \E h \in 1..guidN : EmTimerFire(h)
    \/ guidN < MaxToGuid /\ \E name \in Names : \E cb \in EmCallbacks : EmOn(name, cb)
    \/ \E h \in 1..guidN : EmOff(h)
    \/ \E name \in Names : EmEmitSync(name, "y")
    \/ \E name \in Names : EmEmitStateSync(name, "x")

SpecTimeout == Init /\ [][ToNext]_vars

\* emissions among callbacks that subscribe and unsubscribe while they run
ReNext ==
    \/ guidN < MaxReGuid /\ \E name \in Names : \E cb \in ReCallbacks : EmOn(name, cb)
    \/ \E h \in 1..guidN : EmOff(h)
    \/ \E name \in Names : \E d \in EmDatas : EmEmitSync(name, d) /\ guidN' <= MaxReGuid
    \/ \E name \in Names : \E d \in EmDatas : EmEmitAsync(name, d) /\ guidN' <= MaxReGuid

SpecReentrant == Init /\ [][ReNext]_vars

\* the callbacks' promises of the latest emitAsync settle in any order
AsNext ==
    \/ \E name \in Names : \E cb \in AsCallbacks : EmOn(name, cb)
    \/ \E h \in 1..guidN : EmOff(h)
    \/ \E name \in Names : \E d \in EmDatas : EmEmitAsync(name, d)
    \/ \E i \in 1..MaxEmGuid : \E ok \in BOOLEAN : EmCallbackSettle(i, ok)

SpecAsync == Init /\ [][AsNext]_vars

\* -------------------------------- claims (SpecSnapshot, SpecEmit, SpecAsync)
\* the values of the snapshots held for a name
snapshots(sts, name) ==
    LET sel == SelectSeq(sts, LAMBDA m : m.stateName = name)
    IN  [i \in DOMAIN sel |-> sel[i].data]

\* the data the callback of subscription h was invoked with, in order
invocations(dlv, h) ==
    LET sel == SelectSeq(dlv, LAMBDA r : r.eventHash = h)
    IN  [i \in DOMAIN sel |-> sel[i].data]

EmitOps == {"emitSync", "emitAsync", "emitStateSync", "emitStateAsync"}

\* C13: subscribe(name, cb) (and the subscribe waitOnce makes) invokes cb in the
\* same step exactly once, with the value of the snapshot of name and the new
\* id, when name has a snapshot, and does not invoke it when name has none; an
\* emitSync or emitAsync creates no snapshot.
C13_StateReplay ==
    [][/\ lastOp'.op \in {"on", "waitEvent"}
          => /\ \A i \in DOMAIN delivered' : delivered'[i].eventHash = lastOp'.hash
             /\ invocations(delivered', lastOp'.hash) = snapshots(states, lastOp'.key)
             /\ Len(delivered') <= 1
       /\ lastOp'.op \in {"emitSync", "emitAsync"} => states' = states]_vars

\* a subscribe was replayed the snapshot of its name, which is not the first
\* snapshot the registry holds
C13_Witness ==
    /\ lastOp.op = "on"
    /\ Len(states) = 2
    /\ states[2].stateName = lastOp.key
    /\ invocations(delivered, lastOp.hash) = <<states[2].data>>
    /\ states[1].data # states[2].data

\* C14: at every moment the registry holds at most one snapshot per name; after
\* setState(name, d), sync or async, it holds d for name, after removeState(name)
\* none, and no other operation changes the snapshot of a name.
C14_SnapshotUnique ==
    [][\A n \in Names :
        /\ Len(snapshots(states', n)) <= 1
        /\ snapshots(states', n) =
             IF lastOp'.op \in {"emitStateSync", "emitStateAsync"} /\ lastOp'.key = n
             THEN <<lastOp'.arg>>
             ELSE IF lastOp'.op = "removeState" /\ lastOp'.key = n THEN <<>>
             ELSE snapshots(states, n)]_vars

\* the async setState overwrote the snapshot of a name while another name has one
C14_Witness ==
    /\ lastOp.op = "emitStateAsync"
    /\ lastOp.idle
    /\ Len(states) = 2
    /\ snapshots(states, lastOp.key) = <<lastOp.arg>>

\* C24 (as claimed): subscribe(name, callback) returns the new id to its caller
\* and adds exactly the subscription with that id, whatever the registry holds
\* and whatever the callback does when the snapshot of name is replayed to it.
C24_SubscribeSucceeds ==
    [][lastOp'.op = "on" =>
        /\ lastOp'.arg = lastOp'.hash
        /\ hashesOf(events') = hashesOf(events) \cup {lastOp'.hash}
        /\ lastOp'.hash \notin hashesOf(events)]_vars

\* C15 (as claimed): emitSync(name, data) invokes the callbacks of all
\* subscriptions of name and of no other, once each, in registration order.
C15_DeliveryOrder ==
    [][lastOp'.op = "emitSync" =>
        LET subs == getEvents(events, lastOp'.key)
        IN  /\ Len(delivered') = Len(subs)
            /\ \A i \in DOMAIN subs :
                 /\ delivered'[i].eventHash = subs[i].eventHash
                 /\ delivered'[i].data = lastOp'.arg]_vars

\* C15 (amended): emitSync(name, data) invokes, in registration order and once
\* each, the callbacks of the subscriptions name has when it is called and of
\* no other, up to and including the first callback that throws: all of them
\* when none throws.
C15_DeliveryOrderUntilThrow ==
    [][lastOp'.op = "emitSync" =>
        LET subs == getEvents(events, lastOp'.key)
            n    == Len(delivered')
        IN  /\ n <= Len(subs)
            /\ \A i \in 1..n :
                 /\ delivered'[i].eventHash = subs[i].eventHash
                 /\ delivered'[i].data = lastOp'.arg
                 /\ i < n => subs[i].callback # "throw"
            /\ n < Len(subs) => (n >= 1 /\ subs[n].callback = "throw")]_vars

\* emitSync reached two subscriptions of its name in registration order, with a
\* subscription of another name registered between them
C15_Witness ==
    /\ lastOp.op = "emitSync"
    /\ Len(delivered) = 2
    /\ delivered[1].eventHash + 1 < delivered[2].eventHash
    /\ \E i \in DOMAIN events :
           /\ events[i].eventName # lastOp.key
           /\ events[i].eventHash > delivered[1].eventHash
           /\ events[i].eventHash < delivered[2].eventHash

\* C16 (as claimed): the completion of emitAsync has settled only when the
\* results of all invoked callbacks have settled.
C16_AllSettled ==
    emission.state \in {"fulfilled", "rejected"}
        => \A i \in DOMAIN emission.results : emission.results[i] # "pending"

\* C16 (amended): the completion of emitAsync is fulfilled exactly when the
\* results of all invoked callbacks have fulfilled, and rejected exactly when one
\* has rejected, whether or not the others have settled; its reason is that of
\* the first rejection (of the first callback in order among those that threw
\* during the call) and a later rejection does not change it.
C16_FailFast ==
    [][emission'.state # "none" =>
        LET res      == emission'.results
            rejected == {i \in DOMAIN res : res[i] = "rejected"}
        IN  /\ emission'.state = "fulfilled" <=> \A i \in DOMAIN res : res[i] = "fulfilled"
            /\ emission'.state = "rejected" <=> rejected # {}
            /\ emission'.state = "rejected" =>
                 /\ emission'.reason \in rejected
                 /\ lastOp'.op = "emitAsync" => \A i \in rejected : emission'.reason <= i
                 /\ lastOp'.op = "callbackSettle" =>
                      emission'.reason = IF emission.state = "rejected"
                                         THEN emission.reason ELSE lastOp'.arg]_vars

\* the completion is rejected with the reason of the second callback while the
\* result of the first is still pending
C16_Witness ==
    /\ emission.state = "rejected"
    /\ Len(emission.results) >= 2
    /\ emission.reason = 2
    /\ emission.results[1] = "pending"
    /\ lastOp.op = "callbackSettle"

C25_TimeoutRetention ==
    [][\A h \in DOMAIN futures :
        "timer" \in DOMAIN futures[h] =>
            LET f    == futures[h]
                lost == f.timer = "fired" /\ f.state = "pending" /\ has(events, h)
                got  == invocations(delivered', h)
            IN  /\ (lastOp'.op = "timerFire" /\ lastOp'.hash = h /\ has(events, h)) =>
                     /\ events' = events
                     /\ has(events', h)
                     /\ hasEvent(events', lastOp'.key)
                     /\ futures'[h].state = "pending"
                     /\ futures'[h].race = IF f.onTimeout THEN "rejected" ELSE "resolved"
                     /\ futures'[h].raceValue = IF f.onTimeout THEN TimeoutReturn ELSE Undefined
                /\ (lost /\ got = <<>> /\ ~(lastOp'.op = "off" /\ lastOp'.hash = h)) =>
                     /\ has(events', h)
                     /\ hasEvent(events', eventNameOf(events, h))
                     /\ futures'[h] = f
                /\ (lost /\ got # <<>>) =>
                     /\ Len(got) = 1
                     /\ lastOp'.key = eventNameOf(events, h)
                     /\ ~has(events', h)
                     /\ futures'[h].race = f.race
                     /\ futures'[h].raceValue = f.raceValue]_vars

\* a listener whose timer had won the race with a rejection was delivered a
\* value and removed itself, and the race is still rejected with the timeout
C25_Witness ==
    /\ lastOp.op \in EmitOps
    /\ \E i \in DOMAIN delivered :
           LET h == delivered[i].eventHash
           IN  /\ h \in DOMAIN futures
               /\ futures[h].timer = "fired"
               /\ futures[h].race = "rejected"
               /\ futures[h].raceValue = TimeoutReturn
               /\ futures[h].state = "resolved"
               /\ futures[h].value = lastOp.arg
               /\ ~has(events, h)

\* ------------------------------------------------ claims (SpecReentrant)
\* C23: a subscription added by a callback while emitSync(name) or
\* emitAsync(name) delivers is not invoked in that step: every callback invoked
\* belongs to a subscription name had when the emission was called; each
\* subscribing callback invoked added one subscription, which is registered for
\* name, where later emissions find it, unless a later callback removed it.
C23_EmissionSnapshot ==
    [][lastOp'.op \in {"emitSync", "emitAsync"} =>
        LET added == (guidN + 1)..guidN'
        IN  /\ \A i \in DOMAIN delivered' :
                 delivered'[i].eventHash \in hashesOf(getEvents(events, lastOp'.key))
            /\ \A h \in added :
                 /\ invocations(delivered', h) = <<>>
                 /\ has(events', h) => eventNameOf(events', h) = lastOp'.key
                 /\ has(events', h)
                      \/ \E i \in DOMAIN delivered' :
                             offTarget([eventHash |-> delivered'[i].eventHash,
                                        callback |-> delivered'[i].callback]) = h
            /\ Cardinality(added) =
                 Len(SelectSeq(delivered', LAMBDA r : r.callback = "onAgain"))
            /\ hashesOf(events') \ hashesOf(events) \subseteq added]_vars

\* an emission invoked a callback that subscribed and, after it, another
\* subscriber of the name, but not the subscription added, which is registered
C23_Witness ==
    /\ lastOp.op \in {"emitSync", "emitAsync"}
    /\ Len(delivered) = 2
    /\ delivered[1].callback = "onAgain"
    /\ delivered[2].callback = "cb"
    /\ has(events, guidN)
    /\ eventNameOf(events, guidN) = lastOp.key
    /\ invocations(delivered, guidN) = <<>>

\* the subscriptions of subs that an earlier callback of subs, among those
\* invoked, unsubscribes: the positions in subs
removedByEarlier(subs, dlv) ==
    {k \in DOMAIN subs :
        \E j \in 1..(k - 1) :
            /\ offTarget(subs[j]) = subs[k].eventHash
            /\ invocations(dlv, subs[j].eventHash) # <<>>}

\* C27 (as claimed): a subscription of name that an earlier callback of the same
\* emitSync(name) or emitAsync(name) unsubscribes is still invoked by that
\* emission, once and with the value emitted, and no emission invokes a
\* subscription that was not registered when it was called.
C27_RemovedStillInvoked ==
    [][lastOp'.op \in {"emitSync", "emitAsync"} =>
        LET subs == getEvents(events, lastOp'.key)
        IN  /\ \A k \in removedByEarlier(subs, delivered') :
                 /\ ~has(events', subs[k].eventHash)
                 /\ invocations(delivered', subs[k].eventHash) = <<lastOp'.arg>>
            /\ \A i \in DOMAIN delivered' : has(events, delivered'[i].eventHash)]_vars

\* C27 (amended): such a subscription is still invoked by that emission, once
\* and with the value emitted, in emitAsync always and in emitSync unless a
\* callback registered before it throws, which ends the emission before it is
\* reached; no emission invokes a subscription that was not registered when it
\* was called.
C27_RemovedStillInvokedUntilThrow ==
    [][lastOp'.op \in {"emitSync", "emitAsync"} =>
        LET subs == getEvents(events, lastOp'.key)
            cut(k) == /\ lastOp'.op = "emitSync"
                      /\ \E j \in 1..(k - 1) : subs[j].callback = "throw"
        IN  /\ \A k \in removedByEarlier(subs, delivered') :
                 /\ ~has(events', subs[k].eventHash)
                 /\ invocations(delivered', subs[k].eventHash) =
                      IF cut(k) THEN <<>> ELSE <<lastOp'.arg>>
            /\ \A i \in DOMAIN delivered' : has(events, delivered'[i].eventHash)]_vars

\* an emission invoked a subscription that the callback before it had removed
C27_Witness ==
    /\ lastOp.op \in {"emitSync", "emitAsync"}
    /\ Len(delivered) >= 2
    /\ delivered[1].callback = "offNext"
    /\ delivered[2].eventHash = delivered[1].eventHash + 1
    /\ delivered[2].data = lastOp.arg
    /\ ~has(events, delivered[2].eventHash)
    /\ has(events, delivered[1].eventHash)

\* ------------------------------------------ EventEmitter: createNewEmitter
\* The filters createNewEmitter is given: none (the list is copied), the
\* identity (the list itself is returned) and a filter by name (a new list).
\* While derived.alias holds, _events of both emitters is one array: push() on
\* either is seen by both, and the first reassignment (filter() in off) parts them.
Filters == {"none", "identity"} \cup Names

Emitters == {"original", "derived"}

\* createNewEmitter(filter) on the original emitter
DvCreateNewEmitter(filter) ==
    /\ derived' = [made |-> TRUE,
                   alias |-> (filter = "identity"),
                   events |-> IF filter \in Names THEN getEvents(events, filter) ELSE events]
    /\ lastOp' = Op("createNewEmitter", filter, 0, FALSE, "original")
    /\ delivered' = <<>>
    /\ fired' = <<>>
    /\ UNCHANGED <<emission, events, offTriggers, states, guidN, prods, futures, ups,
                   epochProducers, epochOpeners>>

\* on(eventName, callback) on either emitter: this._events.push(...)
DvOn(target, name) ==
    /\ guidN < MaxEmGuid
    /\ target = "derived" => derived.made
    /\ guidN' = guidN + 1
    /\ LET mine == IF target = "original" THEN events ELSE derived.events
           evs  == on(mine, name, guidN + 1, "cb")
       IN  /\ events' = IF target = "original" \/ derived.alias THEN evs ELSE events
           /\ derived' = IF target = "derived" \/ derived.alias
                         THEN [derived EXCEPT !.events = evs] ELSE derived
    /\ lastOp' = Op("on", name, guidN + 1, FALSE, target)
    /\ delivered' = <<>>
    /\ fired' = <<>>
    /\ UNCHANGED <<emission, offTriggers, states, prods, futures, ups,
                   epochProducers, epochOpeners>>

\* off(eventHash) on either emitter: this._events = this._events.filter(...)
DvOff(target, h) ==
    /\ target = "derived" => derived.made
    /\ events' = IF target = "original" THEN _offAction(events, h) ELSE events
    /\ derived' = IF target = "derived"
                  THEN [derived EXCEPT !.events = _offAction(@, h), !.alias = FALSE]
                  ELSE [derived EXCEPT !.alias = FALSE]
    /\ lastOp' = Op("off", "", h, FALSE, target)
    /\ delivered' = <<>>
    /\ fired' = <<>>
    /\ UNCHANGED <<emission, offTriggers, states, guidN, prods, futures, ups,
                   epochProducers, epochOpeners>>

DvNext ==
    \/ \E filter \in Filters : DvCreateNewEmitter(filter)
    \/ \E target \in Emitters : \E name \in Names : DvOn(target, name)
    \/ \E target \in Emitters : \E h \in 1..guidN : DvOff(target, h)

SpecDerive == Init /\ [][DvNext]_vars

\* C18 (as claimed): once an emitter has been derived, a subscribe or
\* unsubscribe on the original leaves the set of subscriptions of the derived
\* emitter as it is, and one on the derived emitter leaves that of the original.
C18_DeriveIndependent ==
    [][(derived.made /\ lastOp'.op \in {"on", "off"}) =>
        /\ lastOp'.arg = "original" => hashesOf(derived'.events) = hashesOf(derived.events)
        /\ lastOp'.arg = "derived" => hashesOf(events') = hashesOf(events)]_vars

\* ------------------------------------------------------ claims (SpecFair)
\* C19: whenever the key of an upstream has no listener left, the closing
\* function of that upstream is eventually invoked, provided the opener yields
\* it; also when the key drained before the deferred opener ran.
C19_TeardownLiveness ==
    \A u \in UpIds :
        (u \in DOMAIN ups /\ ~hasEvent(events, ups[u].key))
            ~> (u \in DOMAIN ups /\ ups[u].closes >= 1)

\* an upstream whose last consumer left before its opener ran has been closed
C19_Witness ==
    \E u \in DOMAIN ups :
        /\ ups[u].early
        /\ ups[u].closes = 1
        /\ ~hasEvent(events, ups[u].key)
        /\ lastOp.op = "teardownResume"

\* C20 (as claimed): once the teardown of an upstream has completed (its
\* closing function invoked, no continuation of its hook pending), the
\* EventDrained hook its subscribe registered is no longer registered.
C20_HookDeregistered ==
    \A u \in DOMAIN ups :
        (ups[u].closes >= 1 /\ ups[u].awaiting = 0)
            => \A i \in DOMAIN offTriggers : offTriggers[i].ref # u
====
